---- MODULE Spec2Model ----
(***************************************************************************)
(* A model of the DiceSim probability engine:                              *)
(*   common/mod.rs         add_to_map_value, binomial_pmf, n_choose_k,     *)
(*                         calc_multi_round_damage                         *)
(*   deadzone/simulator.rs calc_dmg_probs, make_success_probs,             *)
(*                         simulated_num_successes_from_multi_roll,        *)
(*                         simulated_sf_from_single_roll                   *)
(*                                                                         *)
(* Number representations.                                                 *)
(*   i64  a non-negative i64 is a little-endian sequence of limbs in base  *)
(*        Base without leading zero limbs (TLC's own integers are 32 bits  *)
(*        wide and the numerator of n_choose_k needs 63).  A product that  *)
(*        leaves the i64 range is the value I64Overflow.                   *)
(*   f64  an f64 is an exact fraction <<num, den>> in lowest terms with    *)
(*        den > 0.  Rounding is not modelled: every statement about f64    *)
(*        values below is a statement about the exact values.              *)
(*   i32  keys, counters and tallies are TLC integers; the bounds keep     *)
(*        them far from the i32 limits.                                    *)
(* A HashMap is a function whose domain is its key set.  The iteration     *)
(* order of a HashMap is unspecified; every loop over a map below is a     *)
(* sum of exact values, which does not depend on the order.                *)
(***************************************************************************)
EXTENDS Integers, Sequences, FiniteSets, TLC

VARIABLES
    pc,                 \* position of the running call
    LOOKUP_TABLE,       \* common/mod.rs: static mut LOOKUP_TABLE of n_choose_k
    nck,                \* log of the n_choose_k calls made by a direct caller
    conv,               \* a direct call of calc_multi_round_damage: input, rounds, output
    attacker,           \* calc_dmg_probs: attacker Model
    defender,           \* calc_dmg_probs: defender Model
    options,            \* calc_dmg_probs: Options
    who,                \* which make_success_probs call is running: "atk" or "def"
    sim_idx,            \* make_success_probs: trials completed (the loop variable)
    success_counts,     \* make_success_probs: success_counts
    atk_success_probs,  \* calc_dmg_probs: atk_success_probs
    def_success_probs,  \* calc_dmg_probs: def_success_probs
    stack,              \* activation records of simulated_num_successes_from_multi_roll
    roll,               \* locals of simulated_sf_from_single_roll, and its draws so far
    trial,              \* log of the current trial (history, not read by the program)
    log_faces,          \* whether roll.draws records the faces drawn (history switch)
    dmg_single,         \* calc_dmg_probs: dmg_probs before the multi-round step
    dmg_probs,          \* calc_dmg_probs: the map returned
    contribs            \* log of the add_to_map_value calls of calc_dmg_probs (history)

vars == <<pc, LOOKUP_TABLE, nck, conv, attacker, defender, options, who,
          sim_idx, success_counts, atk_success_probs, def_success_probs, stack,
          roll, trial, log_faces, dmg_single, dmg_probs, contribs>>

Min(a, b) == IF a < b THEN a ELSE b

Max(a, b) == IF a > b THEN a ELSE b

Abs(a) == IF a < 0 THEN -a ELSE a

Signum(a) == IF a > 0 THEN 1 ELSE IF a < 0 THEN -1 ELSE 0

(***************************************************************************)
(* i64 arithmetic on limbs.                                                *)
(***************************************************************************)
Base == 10 ^ 4

BigZero == <<>>

RECURSIVE BigFromNat(_)
BigFromNat(x) ==
    IF x = 0 THEN <<>> ELSE <<x % Base>> \o BigFromNat(x \div Base)

RECURSIVE BigNorm(_)
BigNorm(x) ==
    IF x = <<>> THEN x
    ELSE IF x[Len(x)] = 0 THEN BigNorm(SubSeq(x, 1, Len(x) - 1))
    ELSE x

RECURSIVE BigCmpAt(_, _, _)
BigCmpAt(x, y, i) ==
    IF i = 0 THEN 0
    ELSE IF x[i] < y[i] THEN -1
    ELSE IF x[i] > y[i] THEN 1
    ELSE BigCmpAt(x, y, i - 1)

\* -1, 0, 1 as x < y, x = y, x > y
BigCmp(x, y) ==
    IF Len(x) < Len(y) THEN -1
    ELSE IF Len(x) > Len(y) THEN 1
    ELSE BigCmpAt(x, y, Len(x))

RECURSIVE MulCarry(_, _, _)
MulCarry(x, m, c) ==
    IF x = <<>> THEN BigFromNat(c)
    ELSE LET t == x[1] * m + c
         IN  <<t % Base>> \o MulCarry(Tail(x), m, t \div Base)

\* x * m for 0 <= m < Base
BigMulSmall(x, m) == BigNorm(MulCarry(x, m, 0))

RECURSIVE SubBorrow(_, _, _)
SubBorrow(x, y, b) ==
    IF x = <<>> THEN <<>>
    ELSE LET yi == IF y = <<>> THEN 0 ELSE y[1]
             yt == IF y = <<>> THEN y ELSE Tail(y)
             t  == x[1] - yi - b
         IN  IF t < 0 THEN <<t + Base>> \o SubBorrow(Tail(x), yt, 1)
             ELSE <<t>> \o SubBorrow(Tail(x), yt, 0)

\* x - y for x >= y
BigSub(x, y) == BigNorm(SubBorrow(x, y, 0))

\* the largest d in lo..hi with y * d <= r, given y * lo <= r
RECURSIVE QuotDigit(_, _, _, _)
QuotDigit(r, y, lo, hi) ==
    IF lo = hi THEN lo
    ELSE LET mid == (lo + hi + 1) \div 2
         IN  IF BigCmp(BigMulSmall(y, mid), r) <= 0
             THEN QuotDigit(r, y, mid, hi)
             ELSE QuotDigit(r, y, lo, mid - 1)

\* long division: the limbs i, i-1, ..., 1 of x are still to be brought down, r is
\* the remainder so far and q the quotient limbs found so far
RECURSIVE DivStep(_, _, _, _, _)
DivStep(x, y, i, r, q) ==
    IF i = 0 THEN q
    ELSE LET r1 == BigNorm(<<x[i]>> \o r)
             d  == QuotDigit(r1, y, 0, Base - 1)
             r2 == BigSub(r1, BigMulSmall(y, d))
         IN  IF Len(r2) >= 0 THEN DivStep(x, y, i - 1, r2, <<d>> \o q) ELSE q

\* x / y of two non-negative i64 values, y > 0: the quotient rounded towards zero
BigDiv(x, y) == BigNorm(DivStep(x, y, Len(x), <<>>, <<>>))

\* i64::MAX = 2^63 - 1 = 9223372036854775807
I64Max ==
    LET p31 == BigFromNat(2147483647)          \* 2^31 - 1
        RECURSIVE Dbl(_, _)
        Dbl(x, k) == IF k = 0 THEN x
                     ELSE Dbl(BigNorm(MulCarry(BigMulSmall(x, 2), 1, 1)), k - 1)
    IN  Dbl(p31, 32)                           \* x -> 2x + 1, 32 times

I64Overflow == <<-1>>

\* a * m in i64 arithmetic (m an i32 factor cast to i64, 0 <= m < Base)
I64Mul(a, m) ==
    IF a = I64Overflow THEN I64Overflow
    ELSE LET p == BigMulSmall(a, m)
         IN  IF BigCmp(p, I64Max) > 0 THEN I64Overflow ELSE p

\* an i64 that fits TLC's integers, as an integer
RECURSIVE BigToNat(_)
BigToNat(x) == IF x = <<>> THEN 0 ELSE x[1] + Base * BigToNat(Tail(x))

(***************************************************************************)
(* f64 values as exact fractions.                                          *)
(***************************************************************************)
RECURSIVE GCD(_, _)
GCD(a, b) == IF b = 0 THEN a ELSE GCD(b, a % b)

RNorm(n, d) == LET g == GCD(Abs(n), d) IN <<n \div g, d \div g>>

RZero == <<0, 1>>

ROne == <<1, 1>>

\* a + b over the least common denominator, g the gcd of the two denominators
RAddOver(a, b, g) ==
    RNorm(a[1] * (b[2] \div g) + b[1] * (a[2] \div g), (a[2] \div g) * b[2])

RAdd(a, b) == RAddOver(a, b, GCD(a[2], b[2]))

\* a * b cancelled crosswise before multiplying, g1 and g2 the gcds of a numerator
\* and the other denominator
RMulOver(a, b, g1, g2) ==
    RNorm((a[1] \div g1) * (b[1] \div g2), (a[2] \div g2) * (b[2] \div g1))

RMul(a, b) == RMulOver(a, b, GCD(Abs(a[1]), b[2]), GCD(Abs(b[1]), a[2]))

RECURSIVE RPow(_, _)
RPow(a, k) == IF k <= 0 THEN ROne ELSE RMul(a, RPow(a, k - 1))

(***************************************************************************)
(* common/mod.rs                                                           *)
(***************************************************************************)
EmptyMap == [key \in {} |-> 0]

\* add_to_map_value::<i32, i32>
add_to_map_value_i32(map, key, val) ==
    LET old_map_val == IF key \in DOMAIN map THEN map[key] ELSE 0
    IN  [x \in DOMAIN map \cup {key} |-> IF x = key THEN old_map_val + val ELSE map[x]]

\* the same with insert(key, val): the old value is dropped
add_to_map_value_f64_overwrite(map, key, val) ==
    [x \in DOMAIN map \cup {key} |-> IF x = key THEN val ELSE map[x]]

\* add_to_map_value::<i32, f64>
add_to_map_value_f64(map, key, val) ==
    LET old_map_val == IF key \in DOMAIN map THEN map[key] ELSE RZero
    IN  [x \in DOMAIN map \cup {key} |->
            IF x = key THEN RAdd(old_map_val, val) ELSE map[x]]

MAX_NUM_TRIALS == 29

\* LOOKUP_TABLE is [[i64; MAX_NUM_TRIALS]; MAX_NUM_TRIALS + 1]: MAX_NUM_TRIALS + 1
\* rows of MAX_NUM_TRIALS entries each, all 0 at the start.  The model keeps the
\* non-zero entries, as a function from <<row, col>> to the entry; every other
\* entry of the array is 0.
LookupRows == 0..MAX_NUM_TRIALS

LookupCols == 0..(MAX_NUM_TRIALS - 1)

LookupTableInit == EmptyMap

\* LOOKUP_TABLE[row][col], for indices in bounds
LookupEntry(table, row, col) ==
    IF <<row, col>> \in DOMAIN table THEN table[<<row, col>>] ELSE BigZero

\* for factor in lo..=hi { acc *= factor as i64 }
RECURSIVE ProductRange(_, _, _)
ProductRange(acc, lo, hi) ==
    IF lo > hi \/ acc = I64Overflow THEN acc
    ELSE ProductRange(I64Mul(acc, lo), lo + 1, hi)

\* the end of n_choose_k: `*lookup_entry = result; result`
NChooseKStore(table, n, k, result) ==
    [outcome |-> "ok",
     value   |-> result,
     table   |-> IF result = BigZero
                 THEN [x \in (DOMAIN table) \ {<<n - 1, k>>} |-> table[x]]
                 ELSE [x \in (DOMAIN table) \cup {<<n - 1, k>>} |->
                          IF x = <<n - 1, k>> THEN result ELSE table[x]]]

\* `let result = numerator / denominator` and the end of n_choose_k
NChooseKDivide(table, n, k, numerator, denominator) ==
    IF numerator = I64Overflow \/ denominator = I64Overflow
    THEN [outcome |-> "overflow", value |-> BigZero, table |-> table]
    ELSE NChooseKStore(table, n, k, BigDiv(numerator, denominator))

\* n_choose_k called with the table as it stands: the outcome ("ok"; "panic" for an
\* index out of bounds; "overflow" for a product out of the i64 range, which
\* panics or wraps with the build), the value returned and the table afterwards.
\* `n as usize - 1` and `k as usize` are in bounds exactly for 1 <= n <=
\* MAX_NUM_TRIALS + 1 and 0 <= k <= MAX_NUM_TRIALS - 1.
n_choose_k(table, n, k) ==
    IF ~(n - 1 \in LookupRows /\ k \in LookupCols)
    THEN [outcome |-> "panic", value |-> BigZero, table |-> table]
    ELSE IF LookupEntry(table, n - 1, k) # BigZero
    THEN [outcome |-> "ok", value |-> LookupEntry(table, n - 1, k), table |-> table]
    ELSE LET n_minus_k       == n - k
             smaller_divisor == IF k < n_minus_k THEN k ELSE n_minus_k
             bigger_divisor  == IF k < n_minus_k THEN n_minus_k ELSE k
         IN  NChooseKDivide(table, n, k,
                            ProductRange(<<1>>, bigger_divisor + 1, n),
                            ProductRange(<<1>>, 2, smaller_divisor))

\* binomial_pmf given the result c of its n_choose_k call
BinomialPmfOf(c, num_trials, num_successes, prob_success) ==
    [outcome |-> c.outcome,
     value   |-> IF c.outcome # "ok" THEN RZero
                 ELSE RMul(RMul(<<BigToNat(c.value), 1>>,
                                RPow(prob_success, num_successes)),
                           RPow(RAdd(ROne, <<-prob_success[1], prob_success[2]>>),
                                num_trials - num_successes)),
     table   |-> c.table]

\* binomial_pmf with prob_success an exact fraction: the outcome of its n_choose_k
\* call, the value and the table afterwards
binomial_pmf(table, num_trials, num_successes, prob_success) ==
    BinomialPmfOf(n_choose_k(table, num_trials, num_successes),
                  num_trials, num_successes, prob_success)

\* the two inner loops of calc_multi_round_damage: every pair of pairs adds
\* prev_rounds_prob * single_round_prob at prev_rounds_dmg + single_round_dmg
RECURSIVE ConvAddPairs(_, _, _, _)
ConvAddPairs(latest, prev, single, pairs) ==
    IF pairs = {} THEN latest
    ELSE LET pr == CHOOSE x \in pairs : TRUE
         IN  ConvAddPairs(add_to_map_value_f64(latest, pr[1] + pr[2],
                                               RMul(prev[pr[1]], single[pr[2]])),
                          prev, single, pairs \ {pr})

\* one round of the loop: swap, clear the new latest, fill it
ConvRound(latest, single) ==
    ConvAddPairs(EmptyMap, latest, single, (DOMAIN latest) \X (DOMAIN single))

\* for _round_number in round_number..=num_rounds
RECURSIVE ConvLoop(_, _, _, _)
ConvLoop(latest, single, round_number, num_rounds) ==
    IF round_number > num_rounds THEN latest
    ELSE ConvLoop(ConvRound(latest, single), single, round_number + 1, num_rounds)

\* the loop started at round 1 instead of round 2
calc_multi_round_damage_from_1(single_round_dmg_probs, num_rounds) ==
    ConvLoop(single_round_dmg_probs, single_round_dmg_probs, 1, num_rounds)

calc_multi_round_damage(single_round_dmg_probs, num_rounds) ==
    ConvLoop(single_round_dmg_probs, single_round_dmg_probs, 2, num_rounds)

(***************************************************************************)
(* deadzone/simulator.rs: the success simulator                            *)
(***************************************************************************)
PIP_LO == 1

PIP_HI == 8

\* Sf::new()
SfNew == [s |-> 0, f |-> 0]

\* Sf::add
SfAdd(self, other) == [s |-> self.s + other.s, f |-> self.f + other.f]

\* one pass of the loop of simulated_sf_from_single_roll with the draw pip_outcome,
\* breaking after every draw
SingleRollStep_break_always(sf, dice_stat, pip_outcome) ==
    [sf    |-> IF pip_outcome >= dice_stat THEN [sf EXCEPT !.s = @ + 1]
               ELSE [sf EXCEPT !.f = @ + 1],
     break |-> TRUE]

\* the same with the success test pip_outcome > dice_stat
SingleRollStep_strict(sf, dice_stat, pip_outcome) ==
    [sf    |-> IF pip_outcome > dice_stat THEN [sf EXCEPT !.s = @ + 1]
               ELSE [sf EXCEPT !.f = @ + 1],
     break |-> pip_outcome # PIP_HI]

\* one pass of the loop of simulated_sf_from_single_roll with the draw pip_outcome:
\* the tally afterwards and whether the loop breaks
SingleRollStep(sf, dice_stat, pip_outcome) ==
    [sf    |-> IF pip_outcome >= dice_stat THEN [sf EXCEPT !.s = @ + 1]
               ELSE [sf EXCEPT !.f = @ + 1],
     break |-> pip_outcome # PIP_HI]

\* the activation record of simulated_num_successes_from_multi_roll at its entry:
\* the arguments, the loop counter of `for _ in 0..num_dice` and sf
Frame(num_dice, dice_stat, num_rerolls) ==
    [num_dice |-> num_dice, dice_stat |-> dice_stat, num_rerolls |-> num_rerolls,
     i |-> 0, sf |-> SfNew]

\* `for _ in 0..=num_dice`
MoreDice_inclusive(frame) == frame.i <= frame.num_dice

\* `for _ in 0..num_dice`: whether another die is rolled
MoreDice(frame) == frame.i < frame.num_dice

\* the reroll stage rolling num_rerolls dice whatever the failures
RerollDice_all(num_rerolls, f) == num_rerolls

\* the num_dice argument of the recursive call
RerollDice(num_rerolls, f) == Min(num_rerolls, f)

\* the value a finished activation returns through its callers: each caller waits
\* at the recursive call and returns num_original_successes + num_rerolled_successes
RECURSIVE Unwind(_, _)
Unwind(frames, ret) ==
    IF frames = <<>> THEN ret
    ELSE Unwind(SubSeq(frames, 1, Len(frames) - 1), frames[Len(frames)].sf.s + ret)

RollIdle == [sf |-> SfNew, n |-> 0, draws |-> <<>>]

TrialIdle ==
    [started |-> FALSE, returned |-> FALSE, draws |-> 0, orig_rolls |-> 0,
     reroll_rolls |-> 0, reroll_calls |-> 0, reroll_dice |-> 0, orig_s |-> 0,
     orig_f |-> 0, reroll_s |-> 0, ret |-> 0]

CurrentModel == IF who = "atk" THEN attacker ELSE defender

Top == stack[Len(stack)]

binomVars == <<nck>>

convVars == <<conv>>

inputVars == <<attacker, defender, options, log_faces>>

dmgVars == <<dmg_single, dmg_probs, contribs>>

\* make_success_probs: the next pass of `for _ in 0..num_simulations` calls
\* simulated_num_successes_from_multi_roll with the model's fields
CallMultiRoll ==
    /\ pc = "sim_loop"
    /\ sim_idx < options.numSimulations
    /\ stack' = <<Frame(CurrentModel.numDice, CurrentModel.diceStat,
                        CurrentModel.numRerolls)>>
    /\ trial' = [TrialIdle EXCEPT !.started = TRUE]
    /\ pc' = "multi_loop"
    /\ UNCHANGED <<LOOKUP_TABLE, binomVars, convVars, inputVars, dmgVars, who, sim_idx,
                   success_counts, atk_success_probs, def_success_probs, roll>>

\* simulated_num_successes_from_multi_roll: the next pass of `for _ in 0..num_dice`
\* calls simulated_sf_from_single_roll
CallSingleRoll ==
    /\ pc = "multi_loop"
    /\ MoreDice(Top)
    /\ roll' = RollIdle
    /\ trial' = IF Len(stack) = 1 THEN [trial EXCEPT !.orig_rolls = @ + 1]
                ELSE [trial EXCEPT !.reroll_rolls = @ + 1]
    /\ pc' = "single"
    /\ UNCHANGED <<LOOKUP_TABLE, binomVars, convVars, inputVars, dmgVars, who, sim_idx,
                   success_counts, atk_success_probs, def_success_probs, stack>>

\* the dice source never yields more than MaxExplode maximal faces in a row within
\* one roll
MaxExplode == 1

\* simulated_sf_from_single_roll: one pass of its loop, with the face pip sampled
\* from die_distribution
Draw(pip) ==
    /\ pc = "single"
    /\ pip = PIP_HI => roll.n < MaxExplode
    /\ LET step == SingleRollStep(roll.sf, Top.dice_stat, pip)
       IN  /\ roll' = [sf    |-> step.sf,
                       n     |-> roll.n + 1,
                       draws |-> IF log_faces THEN Append(roll.draws, pip)
                                 ELSE roll.draws]
           /\ pc' = IF step.break THEN "single_ret" ELSE "single"
    /\ trial' = [trial EXCEPT !.draws = @ + 1]
    /\ UNCHANGED <<LOOKUP_TABLE, binomVars, convVars, inputVars, dmgVars, who, sim_idx,
                   success_counts, atk_success_probs, def_success_probs, stack>>

\* simulated_sf_from_single_roll returns sf; the caller adds it to its own and
\* goes round its loop
ReturnSingleRoll ==
    /\ pc = "single_ret"
    /\ stack' = [stack EXCEPT ![Len(stack)] =
                    [@ EXCEPT !.sf = SfAdd(@, roll.sf), !.i = @ + 1]]
    /\ roll' = RollIdle
    /\ pc' = "multi_loop"
    /\ UNCHANGED <<LOOKUP_TABLE, binomVars, convVars, inputVars, dmgVars, who, sim_idx,
                   success_counts, atk_success_probs, def_success_probs, trial>>

\* simulated_num_successes_from_multi_roll, after its loop, num_rerolls != 0: the
\* recursive call, with num_rerolls 0
CallReroll ==
    /\ pc = "multi_loop"
    /\ ~MoreDice(Top)
    /\ Top.num_rerolls # 0
    /\ LET num_dice == RerollDice(Top.num_rerolls, Top.sf.f)
       IN  /\ stack' = Append(stack, Frame(num_dice, Top.dice_stat, 0))
           /\ trial' = [trial EXCEPT !.reroll_calls = @ + 1, !.reroll_dice = num_dice]
    /\ UNCHANGED <<pc, LOOKUP_TABLE, binomVars, convVars, inputVars, dmgVars, who,
                   sim_idx, success_counts, atk_success_probs, def_success_probs,
                   roll>>

\* simulated_num_successes_from_multi_roll, after its loop, num_rerolls == 0: it
\* returns its successes, its caller (if it is the reroll stage) returns the sum, and
\* make_success_probs counts the result
ReturnMultiRoll ==
    /\ pc = "multi_loop"
    /\ ~MoreDice(Top)
    /\ Top.num_rerolls = 0
    /\ LET num_successes == Unwind(stack, 0)
       IN  /\ success_counts' = add_to_map_value_i32(success_counts, num_successes, 1)
           /\ trial' = [trial EXCEPT !.returned = TRUE,
                                     !.orig_s = stack[1].sf.s,
                                     !.orig_f = stack[1].sf.f,
                                     !.reroll_s = IF Len(stack) > 1 THEN Top.sf.s ELSE 0,
                                     !.ret = num_successes]
    /\ stack' = <<>>
    /\ sim_idx' = sim_idx + 1
    /\ pc' = "sim_loop"
    /\ UNCHANGED <<LOOKUP_TABLE, binomVars, convVars, inputVars, dmgVars, who,
                   atk_success_probs, def_success_probs, roll>>

\* the closing map of make_success_probs: each count over num_simulations
SuccessProbs(counts, num_simulations) ==
    [k \in DOMAIN counts |-> RNorm(counts[k], num_simulations)]

\* make_success_probs(attacker) returns; calc_dmg_probs calls
\* make_success_probs(defender)
ReturnAtkSuccessProbs ==
    /\ pc = "sim_loop"
    /\ who = "atk"
    /\ sim_idx >= options.numSimulations
    /\ atk_success_probs' = SuccessProbs(success_counts, options.numSimulations)
    /\ who' = "def"
    /\ sim_idx' = 0
    /\ success_counts' = EmptyMap
    /\ trial' = TrialIdle
    /\ UNCHANGED <<pc, LOOKUP_TABLE, binomVars, convVars, inputVars, dmgVars,
                   def_success_probs, stack, roll>>

\* make_success_probs(defender) returns
ReturnDefSuccessProbs ==
    /\ pc = "sim_loop"
    /\ who = "def"
    /\ sim_idx >= options.numSimulations
    /\ def_success_probs' = SuccessProbs(success_counts, options.numSimulations)
    /\ trial' = TrialIdle
    /\ pc' = "combine"
    /\ UNCHANGED <<LOOKUP_TABLE, binomVars, convVars, inputVars, dmgVars, who, sim_idx,
                   success_counts, atk_success_probs, stack, roll>>

(***************************************************************************)
(* deadzone/simulator.rs: calc_dmg_probs after the two make_success_probs  *)
(***************************************************************************)
\* the literal 0.375
SingleShieldProb == <<3, 8>>

\* max(0, orig_dmg - shield_successes), the magnitude not taken
PostShieldDmg_no_abs(orig_dmg, shield_successes) == Max(0, orig_dmg - shield_successes)

PostShieldDmg(orig_dmg, shield_successes) == Max(0, Abs(orig_dmg) - shield_successes)

\* the key signed by who gives the damage, a tie counted for the attacker
DmgKey_giver_sign(orig_dmg, post_toxic_dmg) ==
    (IF orig_dmg >= 0 THEN 1 ELSE -1) * post_toxic_dmg

\* orig_dmg.signum() * post_toxic_dmg
DmgKey(orig_dmg, post_toxic_dmg) == Signum(orig_dmg) * post_toxic_dmg

\* the body of `for shield_successes in 0..=num_shield_dice` after shield_prob
\* (pmf: its value, the outcome of n_choose_k and the lookup table): acc afterwards
ShieldBody(acc, dmg_giver, net_armor, orig_dmg, atk_and_def_prob, pr, shield_successes, pmf) ==
    IF pmf.outcome # "ok"
    THEN [acc EXCEPT !.outcome = pmf.outcome, !.table = pmf.table]
    ELSE LET post_shield_dmg == PostShieldDmg(orig_dmg, shield_successes)
             post_armor_dmg  == Max(0, post_shield_dmg - net_armor)
             post_toxic_dmg  == post_armor_dmg + dmg_giver.toxicDmg
         IN  [outcome |-> "ok",
              map     |-> add_to_map_value_f64(acc.map,
                                               DmgKey(orig_dmg, post_toxic_dmg),
                                               RMul(atk_and_def_prob, pmf.value)),
              table   |-> pmf.table,
              log     |-> acc.log \cup
                          {[atk_successes    |-> pr[1],
                            def_successes    |-> pr[2],
                            shield_successes |-> shield_successes,
                            key |-> DmgKey(orig_dmg, post_toxic_dmg),
                            val |-> RMul(atk_and_def_prob, pmf.value)]}]

\* `for shield_successes in 0..=num_shield_dice` for one pair pr =
\* <<atk_successes, def_successes>>, from shield_successes on.  acc carries the map
\* dmg_probs, the lookup table, the log of the add_to_map_value calls and the outcome
\* (a panic of n_choose_k ends the call).
RECURSIVE ShieldLoop(_, _, _, _, _, _, _)
ShieldLoop(acc, atk, def, atk_probs, def_probs, pr, shield_successes) ==
    LET atk_successes    == pr[1]
        def_successes    == pr[2]
        orig_dmg         == atk_successes - def_successes
        dmg_giver        == IF orig_dmg >= 0 THEN atk ELSE def
        dmg_receiver     == IF orig_dmg >= 0 THEN def ELSE atk
        net_armor        == Max(0, dmg_receiver.armor - dmg_giver.ap)
        num_shield_dice  == IF orig_dmg = 0 THEN 0 ELSE dmg_receiver.numShieldDice
        atk_and_def_prob == RMul(atk_probs[atk_successes], def_probs[def_successes])
    IN  IF shield_successes > num_shield_dice \/ acc.outcome # "ok" THEN acc
        ELSE ShieldLoop(
                 ShieldBody(acc, dmg_giver, net_armor, orig_dmg, atk_and_def_prob, pr,
                            shield_successes,
                            IF num_shield_dice = 0
                            THEN [outcome |-> "ok", value |-> ROne, table |-> acc.table]
                            ELSE binomial_pmf(acc.table, num_shield_dice,
                                              shield_successes, SingleShieldProb)),
                 atk, def, atk_probs, def_probs, pr, shield_successes + 1)

\* the two loops over atk_success_probs and def_success_probs, for the pairs left
RECURSIVE PairLoop(_, _, _, _, _, _)
PairLoop(acc, atk, def, atk_probs, def_probs, pairs) ==
    IF pairs = {} THEN acc
    ELSE LET pr == CHOOSE x \in pairs : TRUE
         IN  PairLoop(ShieldLoop(acc, atk, def, atk_probs, def_probs, pr, 0),
                      atk, def, atk_probs, def_probs, pairs \ {pr})

\* calc_dmg_probs from `let mut dmg_probs` to its return: the outcome, the
\* single-round map, the map returned, the lookup table and the log
DmgLoops(table, atk, def, opts, atk_probs, def_probs) ==
    LET r == PairLoop([outcome |-> "ok", map |-> EmptyMap, table |-> table, log |-> {}],
                      atk, def, atk_probs, def_probs,
                      (DOMAIN atk_probs) \X (DOMAIN def_probs))
    IN  [outcome |-> r.outcome,
         single  |-> r.map,
         final   |-> IF r.outcome = "ok" /\ opts.numRounds > 1
                     THEN calc_multi_round_damage(r.map, opts.numRounds)
                     ELSE r.map,
         table   |-> r.table,
         log     |-> r.log]

\* calc_dmg_probs, from the return of make_success_probs(defender) to its own
CombineDamage ==
    /\ pc = "combine"
    /\ LET r == DmgLoops(LOOKUP_TABLE, attacker, defender, options,
                         atk_success_probs, def_success_probs)
       IN  /\ dmg_single' = r.single
           /\ dmg_probs' = r.final
           /\ contribs' = r.log
           /\ LOOKUP_TABLE' = r.table
           /\ pc' = IF r.outcome = "ok" THEN "done" ELSE "panicked"
    /\ UNCHANGED <<binomVars, convVars, inputVars, who, sim_idx, success_counts,
                   atk_success_probs, def_success_probs, stack, roll, trial>>

(***************************************************************************)
(* Direct callers of the pub functions of common/mod.rs                    *)
(***************************************************************************)
\* direct callers make at most MaxCalls calls of n_choose_k
MaxCalls == 2

\* a caller calls n_choose_k(n, k)
CallNChooseK(n, k) ==
    /\ pc = "nck"
    /\ Len(nck) < MaxCalls
    /\ LET r == n_choose_k(LOOKUP_TABLE, n, k)
       IN  /\ nck' = Append(nck, [n |-> n, k |-> k, outcome |-> r.outcome,
                                  value |-> r.value,
                                  cached |-> /\ r.outcome = "ok"
                                             /\ LookupEntry(LOOKUP_TABLE, n - 1, k)
                                                    # BigZero])
           /\ LOOKUP_TABLE' = r.table
           /\ pc' = IF r.outcome = "ok" THEN "nck" ELSE "panicked"
    /\ UNCHANGED <<convVars, inputVars, dmgVars, who, sim_idx, success_counts,
                   atk_success_probs, def_success_probs, stack, roll, trial>>

\* a caller calls calc_multi_round_damage(conv.single, conv.num_rounds)
CallMultiRoundDamage ==
    /\ pc = "conv_call"
    /\ conv' = [conv EXCEPT
                   !.out = calc_multi_round_damage(conv.single, conv.num_rounds),
                   !.returned = TRUE]
    /\ pc' = "conv_done"
    /\ UNCHANGED <<LOOKUP_TABLE, binomVars, inputVars, dmgVars, who, sim_idx,
                   success_counts, atk_success_probs, def_success_probs, stack, roll,
                   trial>>

(***************************************************************************)
(* Initial states and specifications                                       *)
(***************************************************************************)
NullModel ==
    [numDice |-> 0, diceStat |-> PIP_LO, numRerolls |-> 0, armor |-> 0, ap |-> 0,
     numShieldDice |-> 0, toxicDmg |-> 0]

ConvIdle == [single |-> EmptyMap, num_rounds |-> 0, out |-> EmptyMap, returned |-> FALSE]

\* the variables of calc_dmg_probs at its entry, make_success_probs(attacker) called
DmgEntry ==
    /\ who = "atk"
    /\ sim_idx = 0
    /\ success_counts = EmptyMap
    /\ atk_success_probs = EmptyMap
    /\ def_success_probs = EmptyMap
    /\ stack = <<>>
    /\ roll = RollIdle
    /\ trial = TrialIdle
    /\ dmg_single = EmptyMap
    /\ dmg_probs = EmptyMap
    /\ contribs = {}

DmgIdle ==
    /\ attacker = NullModel
    /\ defender = NullModel
    /\ options = [numSimulations |-> 0, numRounds |-> 0]
    /\ log_faces = FALSE
    /\ DmgEntry

\* n_choose_k is called with n in 1..NckSmallN or among the NckTopRows largest n of
\* the contract, and every k in 0..n
NckSmallN == 5

NckTopRows == 2

NckNs == (1..NckSmallN) \cup ((MAX_NUM_TRIALS - NckTopRows + 1)..MAX_NUM_TRIALS)

InitBinom ==
    /\ pc = "nck"
    /\ LOOKUP_TABLE = LookupTableInit
    /\ nck = <<>>
    /\ conv = ConvIdle
    /\ DmgIdle

NextBinom == \E n \in NckNs : \E k \in 0..n : CallNChooseK(n, k)

\* direct calls of n_choose_k
SpecBinom == InitBinom /\ [][NextBinom]_vars

\* calc_multi_round_damage is called with keys in -MaxKey..MaxKey, values in
\* 0/2, 1/2, ..., MaxValNum/2 and 1..MaxRounds rounds
MaxKey == 1

MaxValNum == 2

MaxRounds == 3

ConvKeys == (-MaxKey)..MaxKey

ConvVals == {RNorm(i, 2) : i \in 0..MaxValNum}

ConvInputs == UNION {[D -> ConvVals] : D \in SUBSET ConvKeys}

InitConv ==
    /\ pc = "conv_call"
    /\ LOOKUP_TABLE = LookupTableInit
    /\ nck = <<>>
    /\ conv \in {[single |-> m, num_rounds |-> r, out |-> EmptyMap, returned |-> FALSE] :
                    m \in ConvInputs, r \in 1..MaxRounds}
    /\ DmgIdle

NextConv == CallMultiRoundDamage

\* direct calls of calc_multi_round_damage
SpecConv == InitConv /\ [][NextConv]_vars

NextDmg ==
    \/ CallMultiRoll
    \/ CallSingleRoll
    \/ \E pip \in PIP_LO..PIP_HI : Draw(pip)
    \/ ReturnSingleRoll
    \/ CallReroll
    \/ ReturnMultiRoll
    \/ ReturnAtkSuccessProbs
    \/ ReturnDefSuccessProbs
    \/ CombineDamage

\* calc_dmg_probs with the attacker's dice varied: numDice in 0..MaxDice, every
\* diceStat, numRerolls in 0..MaxRerolls, 1 or 2 simulations; the defender
\* rolls no dice
MaxDice == 2

MaxRerolls == 2

SimModels ==
    [numDice : 0..MaxDice, diceStat : PIP_LO..(PIP_HI + 1), numRerolls : 0..MaxRerolls,
     armor : {0}, ap : {0}, numShieldDice : {0}, toxicDmg : {0}]

Init ==
    /\ pc = "sim_loop"
    /\ LOOKUP_TABLE = LookupTableInit
    /\ nck = <<>>
    /\ conv = ConvIdle
    /\ attacker \in SimModels
    /\ defender = [attacker EXCEPT !.numDice = 0]
    /\ options \in [numSimulations : {1, 2}, numRounds : {1}]
    /\ log_faces = FALSE
    /\ DmgEntry

Spec == Init /\ [][NextDmg]_vars

\* calc_dmg_probs with the combat fields varied: numRerolls, armor, ap,
\* numShieldDice and toxicDmg of the two models sum to at most MaxStat; each side
\* rolls one die against 5, in 1 or 2 simulations, for 1 or 2 rounds
MaxStat == 1

StatSum(m) == m.numRerolls + m.armor + m.ap + m.numShieldDice + m.toxicDmg

DmgModels ==
    {m \in [numDice : {1}, diceStat : {5}, numRerolls : 0..MaxStat, armor : 0..MaxStat,
            ap : 0..MaxStat, numShieldDice : 0..MaxStat, toxicDmg : 0..MaxStat] :
        StatSum(m) <= MaxStat}

InitDmg ==
    /\ pc = "sim_loop"
    /\ LOOKUP_TABLE = LookupTableInit
    /\ nck = <<>>
    /\ conv = ConvIdle
    /\ attacker \in DmgModels
    /\ defender \in {m \in DmgModels : StatSum(attacker) + StatSum(m) <= MaxStat}
    /\ options \in [numSimulations : {1, 2}, numRounds : {1, 2}]
    /\ log_faces = FALSE
    /\ DmgEntry

SpecDmg == InitDmg /\ [][NextDmg]_vars

\* calc_dmg_probs with one attacker die, every diceStat, and the faces of each roll
\* logged
InitRoll ==
    /\ pc = "sim_loop"
    /\ LOOKUP_TABLE = LookupTableInit
    /\ nck = <<>>
    /\ conv = ConvIdle
    /\ attacker \in [numDice : {1}, diceStat : PIP_LO..(PIP_HI + 1), numRerolls : {0, 1},
                     armor : {0}, ap : {0}, numShieldDice : {0}, toxicDmg : {0}]
    /\ defender = [attacker EXCEPT !.numDice = 0]
    /\ options = [numSimulations |-> 1, numRounds |-> 1]
    /\ log_faces = TRUE
    /\ DmgEntry

\* a draw of any face, and a draw of a face other than the maximum
DrawAny == \E pip \in PIP_LO..PIP_HI : Draw(pip)

DrawNotMax == \E pip \in PIP_LO..(PIP_HI - 1) : Draw(pip)

\* The call is synchronous and single-threaded: a roll in its loop goes on to draw.
\* The die is fair: a roll that keeps drawing eventually draws a face other than the
\* maximum.
LiveRoll == InitRoll /\ [][NextDmg]_vars /\ WF_vars(DrawAny) /\ SF_vars(DrawNotMax)

(***************************************************************************)
(* Reference definitions used by the properties                            *)
(***************************************************************************)
\* row n of Pascal's triangle from row n - 1, from entry j on
RECURSIVE PascalFrom(_, _)
PascalFrom(p, j) ==
    IF j > Len(p) + 1 THEN <<>>
    ELSE <<(IF j > 1 THEN p[j - 1] ELSE 0) + (IF j <= Len(p) THEN p[j] ELSE 0)>>
         \o PascalFrom(p, j + 1)

RECURSIVE PascalRow(_)
PascalRow(n) == IF n = 0 THEN <<1>> ELSE PascalFrom(PascalRow(n - 1), 1)

\* the binomial coefficient C(n, k), by Pascal's rule
Binomial(n, k) == PascalRow(n)[k + 1]

\* the sum of the values of the function f over the finite set S
RECURSIVE RSum(_, _)
RSum(S, f) ==
    IF S = {} THEN RZero
    ELSE LET x == CHOOSE y \in S : TRUE IN RAdd(f[x], RSum(S \ {x}, f))

RECURSIVE TupleSum(_, _)
TupleSum(t, i) == IF i = 0 THEN 0 ELSE t[i] + TupleSum(t, i - 1)

RECURSIVE TupleProb(_, _, _)
TupleProb(m, t, i) == IF i = 0 THEN ROne ELSE RMul(m[t[i]], TupleProb(m, t, i - 1))

\* the rounds-fold convolution of the map m with itself, from its definition: over
\* all rounds-tuples of keys of m, the products of their values, added up by the sum
\* of the keys
Convolution(m, rounds) ==
    LET tuples == [1..rounds -> DOMAIN m]
        P      == [t \in tuples |-> TupleProb(m, t, rounds)]
    IN  [d \in {TupleSum(t, rounds) : t \in tuples} |->
            RSum({t \in tuples : TupleSum(t, rounds) = d}, P)]

\* the sum of the values of the map m
Total(m) == RSum(DOMAIN m, m)

\* the value of the map m at key d, 0 for a key it does not hold
Prob(m, d) == IF d \in DOMAIN m THEN m[d] ELSE RZero

SymmetricAround0(m) == \A d \in DOMAIN m : Prob(m, -d) = m[d]

ZeroCombat(m) ==
    m.armor = 0 /\ m.ap = 0 /\ m.numShieldDice = 0 /\ m.toxicDmg = 0 /\ m.numRerolls = 0

(***************************************************************************)
(* Properties                                                              *)
(***************************************************************************)
\* C1 (as claimed): every in-contract call n_choose_k(n, k) made so far returned,
\* and returned the binomial coefficient C(n, k), computed afresh or served from
\* the lookup table.
C1_NChooseKExact ==
    \A i \in 1..Len(nck) :
        /\ nck[i].outcome = "ok"
        /\ nck[i].value = BigFromNat(Binomial(nck[i].n, nck[i].k))

\* C2 (as claimed): two calls n_choose_k(n, k) and n_choose_k(n, n - k) return the
\* same value, and every call with k = 0 or k = n returns 1.
C2_NChooseKSymmetric ==
    /\ \A i, j \in 1..Len(nck) :
           (nck[i].n = nck[j].n /\ nck[i].k + nck[j].k = nck[i].n)
               => /\ nck[i].outcome = "ok"
                  /\ nck[j].outcome = "ok"
                  /\ nck[i].value = nck[j].value
    /\ \A i \in 1..Len(nck) :
           nck[i].k \in {0, nck[i].n} => nck[i].outcome = "ok" /\ nck[i].value = <<1>>

\* C3: calc_multi_round_damage returns the num_rounds-fold convolution of its input
\* with itself, and its input unchanged for one round.
C3_ConvolutionExact ==
    conv.returned =>
        /\ conv.out = Convolution(conv.single, conv.num_rounds)
        /\ conv.num_rounds = 1 => conv.out = conv.single

\* C3 witness: a three-round call on a map with three keys, none of value 0, has
\* returned.
C3_Witness ==
    /\ conv.returned
    /\ conv.num_rounds = 3
    /\ DOMAIN conv.single = {-1, 0, 1}
    /\ \A d \in DOMAIN conv.single : conv.single[d] # RZero

\* C4 (as claimed): the values of the map returned by calc_multi_round_damage sum
\* to the total of the input, normalized or not.
C4_SameTotal == conv.returned => Total(conv.out) = Total(conv.single)

\* C4 (amended): the values of the map returned sum to the num_rounds-th power of
\* the input total; so to the input total for a normalized input and for one round.
C4_TotalPower ==
    conv.returned =>
        /\ Total(conv.out) = RPow(Total(conv.single), conv.num_rounds)
        /\ (Total(conv.single) = ROne \/ conv.num_rounds = 1)
               => Total(conv.out) = Total(conv.single)

\* C4 witness: a call of more than one round on a normalized map of two keys or more
\* has returned.
C4_Witness ==
    /\ conv.returned
    /\ conv.num_rounds >= 2
    /\ Cardinality(DOMAIN conv.single) >= 2
    /\ Total(conv.single) = ROne

\* calc_dmg_probs has returned for identical models without armor, ap, shield dice,
\* toxic damage or rerolls, after one round
IdenticalZeroCombatDone ==
    /\ pc = "done"
    /\ attacker = defender
    /\ ZeroCombat(attacker)
    /\ options.numRounds = 1

\* C5 (as claimed): for identical zero-combat models and one round the map returned
\* by calc_dmg_probs is symmetric around 0 for every outcome of the dice draws.
C5_SymmetricEveryDraw == IdenticalZeroCombatDone => SymmetricAround0(dmg_probs)

\* C5 (amended): for identical zero-combat models and one round, the mass at key d
\* is the sum of atk[a] * def[b] over the pairs with a - b = d, so the map returned
\* is the mirror image of the one with the two sampled success maps exchanged, and
\* it is symmetric around 0 whenever the two simulations sampled the same map.
C5_SymmetricWhenSameSample ==
    IdenticalZeroCombatDone =>
        /\ \A d \in DOMAIN dmg_probs :
               LET pairs == {pr \in (DOMAIN atk_success_probs) \X
                                    (DOMAIN def_success_probs) : pr[1] - pr[2] = d}
               IN  dmg_probs[d] =
                       RSum(pairs, [pr \in pairs |->
                                       RMul(atk_success_probs[pr[1]],
                                            def_success_probs[pr[2]])])
        /\ atk_success_probs = def_success_probs => SymmetricAround0(dmg_probs)

\* C5 witness: identical zero-combat models, the same sampled success map of two
\* outcomes on both sides, and damage at a positive, a negative and the zero key.
C5_Witness ==
    /\ IdenticalZeroCombatDone
    /\ atk_success_probs = def_success_probs
    /\ Cardinality(DOMAIN atk_success_probs) >= 2
    /\ \E d \in DOMAIN dmg_probs : d > 0 /\ -d \in DOMAIN dmg_probs
    /\ 0 \in DOMAIN dmg_probs

\* the contributions logged for the pair <<a, b>> of success counts
ContribsOf(a, b) == {c \in contribs : c.atk_successes = a /\ c.def_successes = b}

\* C6: in the single-round map, mass reaches a positive key only from pairs with
\* atk_successes > def_successes, a negative key only from pairs with
\* atk_successes < def_successes, and every tie adds its whole joint probability to
\* key 0, whatever toxicDmg; the map holds exactly the mass so added.
C6_KeySign ==
    pc = "done" =>
        /\ \A c \in contribs :
               /\ c.key > 0 => c.atk_successes > c.def_successes
               /\ c.key < 0 => c.atk_successes < c.def_successes
        /\ \A a \in (DOMAIN atk_success_probs) \cap (DOMAIN def_success_probs) :
               ContribsOf(a, a) =
                   {[atk_successes |-> a, def_successes |-> a, shield_successes |-> 0,
                     key |-> 0,
                     val |-> RMul(atk_success_probs[a], def_success_probs[a])]}
        /\ DOMAIN dmg_single = {c.key : c \in contribs}
        /\ \A k \in DOMAIN dmg_single :
               LET from == {c \in contribs : c.key = k}
               IN  dmg_single[k] = RSum(from, [c \in from |-> c.val])

\* C6 witness: calc_dmg_probs has returned with a tie between models that deal toxic
\* damage, and with mass at a positive and at a negative key.
C6_Witness ==
    /\ pc = "done"
    /\ attacker.toxicDmg > 0
    /\ \E c \in contribs : c.atk_successes = c.def_successes
    /\ \E c \in contribs : c.key > 0
    /\ \E k \in DOMAIN dmg_single : k < 0

\* C7: for a model with numDice = 0, whatever diceStat and numRerolls, no trial
\* draws a die or enters simulated_sf_from_single_roll, every trial returns 0, and
\* make_success_probs returns the map {0: 1.0}.
C7_NoDice ==
    /\ CurrentModel.numDice = 0 =>
           /\ pc \notin {"single", "single_ret"}
           /\ trial.draws = 0
           /\ trial.returned => trial.ret = 0
    /\ (attacker.numDice = 0 /\ who = "def") => atk_success_probs = (0 :> ROne)
    /\ (defender.numDice = 0 /\ pc \in {"combine", "done"})
           => def_success_probs = (0 :> ROne)

\* C7 witness: make_success_probs has returned for an attacker with no dice and with
\* rerolls, and its last trial went through the reroll stage.
C7_Witness ==
    /\ attacker.numDice = 0
    /\ attacker.numRerolls > 0
    /\ who = "def"
    /\ atk_success_probs # EmptyMap
    /\ sim_idx = 0

\* C8: with numRerolls > 0 the reroll stage runs exactly once per trial, rolls
\* exactly min(numRerolls, F) dice for the F failures of the original roll, never
\* rerolls again, and the trial returns the original successes plus those of the
\* reroll stage; with numRerolls = 0 there is no reroll stage.
C8_RerollOnce ==
    /\ trial.reroll_calls <= 1
    /\ Len(stack) <= 2
    /\ Len(stack) = 2 =>
           /\ stack[2].num_rerolls = 0
           /\ stack[2].num_dice = Min(stack[1].num_rerolls, stack[1].sf.f)
           /\ stack[1].i = stack[1].num_dice
    /\ trial.returned =>
           /\ trial.orig_rolls = CurrentModel.numDice
           /\ trial.ret = trial.orig_s + trial.reroll_s
           /\ IF CurrentModel.numRerolls > 0
              THEN /\ trial.reroll_calls = 1
                   /\ trial.reroll_dice = Min(CurrentModel.numRerolls, trial.orig_f)
                   /\ trial.reroll_rolls = trial.reroll_dice
              ELSE /\ trial.reroll_calls = 0
                   /\ trial.reroll_rolls = 0
                   /\ trial.reroll_s = 0

\* C8 witness: a trial has returned whose original roll failed on fewer dice than
\* numRerolls allows, and whose reroll stage rolled that many dice and succeeded.
C8_Witness ==
    /\ trial.returned
    /\ CurrentModel.numRerolls = 2
    /\ trial.orig_f = 1
    /\ trial.reroll_rolls = 1
    /\ trial.orig_s >= 1
    /\ trial.reroll_s >= 1

\* the roll in progress, as far as it has got, drew PIP_HI on every draw but the
\* last, and tallied each draw as a success iff it is >= dice_stat
RollSoFar ==
    LET d == roll.draws
    IN  /\ roll.n = Len(d)
        /\ \A i \in 1..(Len(d) - 1) : d[i] = PIP_HI
        /\ roll.sf.s = Cardinality({i \in 1..Len(d) : d[i] >= Top.dice_stat})
        /\ roll.sf.f = Cardinality({i \in 1..Len(d) : d[i] < Top.dice_stat})
        /\ roll.sf.s + roll.sf.f = Len(d)

\* C9: simulated_sf_from_single_roll draws on exactly while the draw is PIP_HI and
\* stops at the first other face: every draw but the last is 8, the last of a
\* finished roll is not 8 and that of an unfinished one is, s + f is the number of
\* draws with each a success iff it is >= diceStat, and under a fair die the roll
\* returns.
C9_ExplodingRoll ==
    /\ [](pc \in {"single", "single_ret"} =>
              /\ RollSoFar
              /\ pc = "single_ret" =>
                     roll.draws # <<>> /\ roll.draws[Len(roll.draws)] # PIP_HI
              /\ (pc = "single" /\ roll.draws # <<>>) =>
                     roll.draws[Len(roll.draws)] = PIP_HI)
    /\ ((pc = "single") ~> (pc = "single_ret"))

\* C9 witness: a roll has stopped after an 8 and one other face.
C9_Witness ==
    /\ pc = "single_ret"
    /\ Len(roll.draws) = 2
    /\ roll.draws[1] = PIP_HI
    /\ roll.sf.s + roll.sf.f = 2

\* the failures of the original roll, and so the dice of the reroll stage, are at
\* most the dice of the pool
FailuresWithinPool ==
    /\ Len(stack) >= 1 => stack[1].sf.f <= stack[1].num_dice
    /\ trial.reroll_dice <= CurrentModel.numDice
    /\ trial.reroll_rolls <= CurrentModel.numDice

\* C10 (as claimed): for every diceStat in 1..=9 the reroll stage rolls at most
\* numDice dice, the failure tally sf.f of the original roll being at most numDice.
C10_FailuresWithinPool == FailuresWithinPool

\* C10 (amended): for every diceStat in 1..=8 the reroll stage rolls at most
\* numDice dice, the failure tally sf.f of the original roll being at most numDice
\* (with diceStat = 9 an exploding 8 is itself tallied as a failure).
C10_FailuresWithinPoolTo8 == CurrentModel.diceStat <= PIP_HI => FailuresWithinPool

\* C10 witness: with diceStat 8 every die of a pool of two failed, one of them after
\* an exploding 8, and the reroll stage rolled the whole pool.
C10_Witness ==
    /\ trial.returned
    /\ CurrentModel.diceStat = PIP_HI
    /\ CurrentModel.numDice = 2
    /\ trial.orig_f = 2
    /\ trial.orig_s >= 1
    /\ trial.reroll_rolls = 2

====
